---------------------------- MODULE Spec2Model ----------------------------
(***************************************************************************)
(* A model of packagedcode/debian_copyright.py: the repair of a parsed     *)
(* Debian copyright document (fix_copyright), the aggregation of declared  *)
(* licenses, detected license expressions and copyright statements         *)
(* (parse_copyright_file), the resolution of one declared license name     *)
(* (detect_declared_license, detect_using_name_mapping) and the lazily     *)
(* loaded, module-global alias table (get_declared_to_detected).           *)
(*                                                                         *)
(* Python strings are TLA+ strings; an optional value (None or a value) is *)
(* a sequence of length 0 or 1.                                            *)
(***************************************************************************)
EXTENDS Integers, Sequences, FiniteSets, TLC

\* ------------------------------------------------------------------------
\* Bounds of the model
\* ------------------------------------------------------------------------
MaxParagraphs == 2
NThreads == 2
MaxCalls == 2

\* ------------------------------------------------------------------------
\* Python values and string methods
\* ------------------------------------------------------------------------
None == << >>

Some(v) == << v >>

\* Python truthiness of an optional string: None and "" are false.
Truthy(o) == o # None /\ o[1] # ""

UPPERCASE == "ABCDEFGHIJKLMNOPQRSTUVWXYZ"

LOWERCASE == "abcdefghijklmnopqrstuvwxyz"

\* The characters str.strip() removes when called without an argument.
WHITESPACE == " \t\n\r"

RECURSIVE IndexOf(_, _, _)
\* The first position >= i of the one-character string c in s, or 0.
IndexOf(c, s, i) ==
    IF i > Len(s) THEN 0
    ELSE IF SubSeq(s, i, i) = c THEN i
    ELSE IndexOf(c, s, i + 1)

Contains(chars, c) == IndexOf(c, chars, 1) # 0

\* The character at position k of LOWERCASE, or c itself for k = 0.
LowerAt(c, k) == IF k = 0 THEN c ELSE SubSeq(LOWERCASE, k, k)

LowerChar(c) == LowerAt(c, IndexOf(c, UPPERCASE, 1))

RECURSIVE Lower(_)
\* str.lower()
Lower(s) ==
    IF s = "" THEN ""
    ELSE LowerChar(SubSeq(s, 1, 1)) \o Lower(SubSeq(s, 2, Len(s)))

\* str.startswith(prefix)
StartsWith(s, prefix) ==
    Len(s) >= Len(prefix) /\ SubSeq(s, 1, Len(prefix)) = prefix

RECURSIVE LStrip(_, _)
LStrip(s, chars) ==
    IF s # "" /\ Contains(chars, SubSeq(s, 1, 1))
    THEN LStrip(SubSeq(s, 2, Len(s)), chars)
    ELSE s

RECURSIVE RStrip(_, _)
RStrip(s, chars) ==
    IF s # "" /\ Contains(chars, SubSeq(s, Len(s), Len(s)))
    THEN RStrip(SubSeq(s, 1, Len(s) - 1), chars)
    ELSE s

\* str.strip(chars)
Strip(s, chars) == RStrip(LStrip(s, chars), chars)

RECURSIVE Find(_, _, _)
\* The first position >= i at which sep occurs in s, or 0.
Find(s, sep, i) ==
    IF i + Len(sep) - 1 > Len(s) THEN 0
    ELSE IF SubSeq(s, i, i + Len(sep) - 1) = sep THEN i
    ELSE Find(s, sep, i + 1)

\* s cut at an occurrence of sep at position k (0: no occurrence).
PartitionAt(s, sep, k) ==
    IF k = 0 THEN << s, "", "" >>
    ELSE << SubSeq(s, 1, k - 1), sep, SubSeq(s, k + Len(sep), Len(s)) >>

\* str.partition(sep): <<head, sep, tail>>, or <<s, "", "">> without sep.
Partition(s, sep) == PartitionAt(s, sep, Find(s, sep, 1))

RECURSIVE Join(_, _)
\* sep.join(list)
Join(sep, list) ==
    IF list = << >> THEN ""
    ELSE IF Len(list) = 1 THEN list[1]
    ELSE list[1] \o sep \o Join(sep, Tail(list))

\* x in list
In(x, list) == \E k \in 1..Len(list) : list[k] = x

\* ------------------------------------------------------------------------
\* The alias data source and its loading
\* ------------------------------------------------------------------------
\* The lines of a data file as io.open yields them: declared, a tab, the
\* detected expression.  The third line has no expression, the fourth
\* repeats a key.
DATA_FILE ==
    << "mit\tmit-old-style\n",
       " gpl \t gpl-2.0 \n",
       "bsd\t\n",
       "mit\tmit\n" >>

\* dict[key] = value
DictSet(d, key, value) ==
    [k \in DOMAIN d \cup {key} |-> IF k = key THEN value ELSE d[k]]

\* dict.get(key)
DictGet(d, key) == IF key \in DOMAIN d THEN Some(d[key]) ELSE None

\* The body of the loop over the file, for a line partitioned into parts.
LoadParts(d, parts) ==
    IF parts[3] # "" /\ Strip(parts[3], WHITESPACE) # ""
    THEN DictSet(d, Strip(parts[1], WHITESPACE), parts[3])
    ELSE d

\* One iteration of the loop over the file: the dict after the line.
LoadLine(d, line) == LoadParts(d, Partition(Strip(line, WHITESPACE), "\t"))

RECURSIVE LoadLines(_, _, _)
\* The dict after the lines i.. of the file were read into d.
LoadLines(d, lines, i) ==
    IF i > Len(lines) THEN d
    ELSE LoadLines(LoadLine(d, lines[i]), lines, i + 1)

\* ------------------------------------------------------------------------
\* The license expression engine (license_expression.Licensing), as this
\* module uses it: conjunctions of license keys
\* ------------------------------------------------------------------------
Sym(key) == [op |-> "SYM", key |-> key, args |-> << >>]

And(args) == [op |-> "AND", key |-> "", args |-> args]

\* The only expression of the list, or the conjunction of them all.
Conjunction(expressions) ==
    IF Len(expressions) = 1 THEN expressions[1] ELSE And(expressions)

RECURSIVE Split(_, _)

\* s.split(sep), with s already partitioned at its first sep
SplitParts(parts, sep) ==
    IF parts[2] = "" THEN << parts[1] >>
    ELSE << parts[1] >> \o Split(parts[3], sep)

\* s.split(sep)
Split(s, sep) == SplitParts(Partition(s, sep), sep)

Symbols(tokens) ==
    [k \in 1..Len(tokens) |-> Sym(Strip(tokens[k], WHITESPACE))]

\* licensing.parse(s, simple=True)
Parse(s) == Conjunction(Symbols(Split(Strip(s, WHITESPACE), " AND ")))

RECURSIVE Str(_)
\* str(expression): a nested conjunction is rendered in parentheses.
Str(e) ==
    IF e.op = "SYM" THEN e.key
    ELSE Join(" AND ",
              [k \in 1..Len(e.args) |->
                  IF e.args[k].op = "AND"
                  THEN "(" \o Str(e.args[k]) \o ")"
                  ELSE Str(e.args[k])])

RECURSIVE Keys(_)
RECURSIVE KeysOfAll(_)
\* The license keys of an expression, flattened, left to right.
Keys(e) == IF e.op = "SYM" THEN << e.key >> ELSE KeysOfAll(e.args)

KeysOfAll(args) ==
    IF args = << >> THEN << >> ELSE Keys(Head(args)) \o KeysOfAll(Tail(args))

\* The characters of the model's strings, in code point order.
ASCII == "\t\n\r ()*-./0123456789:ABCDEFGHIJKLMNOPQRSTUVWXYZabcdefghijklmnopqrstuvwxyz"

RECURSIVE StrLess(_, _)

\* a < b, x and y being the code points of their first characters
LessAt(x, y, a, b) ==
    IF x # y THEN x < y
    ELSE StrLess(SubSeq(a, 2, Len(a)), SubSeq(b, 2, Len(b)))

\* a < b on strings
StrLess(a, b) ==
    IF b = "" THEN FALSE
    ELSE IF a = "" THEN TRUE
    ELSE LessAt(IndexOf(SubSeq(a, 1, 1), ASCII, 1),
                IndexOf(SubSeq(b, 1, 1), ASCII, 1), a, b)

RECURSIVE Insert(_, _)
\* key put into the sorted, duplicate-free list
Insert(key, sorted) ==
    IF sorted = << >> THEN << key >>
    ELSE IF key = Head(sorted) THEN sorted
    ELSE IF StrLess(key, Head(sorted)) THEN << key >> \o sorted
    ELSE << Head(sorted) >> \o Insert(key, Tail(sorted))

RECURSIVE SortUnique(_)
SortUnique(keys) ==
    IF keys = << >> THEN << >> ELSE Insert(Head(keys), SortUnique(Tail(keys)))

SymbolsOfKeys(keys) == [k \in 1..Len(keys) |-> Sym(keys[k])]

\* expression.simplify(): flattened, idempotent, arguments sorted.
Simplify(e) == Conjunction(SymbolsOfKeys(SortUnique(Keys(e))))

\* ------------------------------------------------------------------------
\* The free-text license detector (packagedcode.licensing and
\* packagedcode.models), a black box to this module
\* ------------------------------------------------------------------------
\* The detectors of the model: one that knows two licenses by keyword, one
\* that detects nothing.
DETECTORS == {"keyword", "nothing"}

DetectLower(det, text_low) ==
    IF det = "nothing" THEN None
    ELSE IF Find(text_low, "mit", 1) # 0 THEN Some("mit-old-style")
    ELSE IF Find(text_low, "gpl", 1) # 0 THEN Some("gpl-2.0")
    ELSE None

\* get_normalized_expression(text, try_as_expression=False)
get_normalized_expression(det, text) == DetectLower(det, Lower(text))

\* compute_normalized_license(declared)
compute_normalized_license(det, declared) == DetectLower(det, Lower(declared))

\* ------------------------------------------------------------------------
\* The parsed document (debut.copyright)
\* ------------------------------------------------------------------------
\* A copyright statement as the document parser makes it, and a plain
\* string put among the statements.
Field(year_range, holder) ==
    [cls |-> "CopyrightStatementField", year_range |-> year_range,
     holder |-> holder, value |-> ""]

PlainStr(s) ==
    [cls |-> "str", year_range |-> "", holder |-> "", value |-> s]

\* p.dumps() of an entry of copyright.statements: the rendered statement,
\* or the AttributeError of an object without that method.
Dumps(stmt) ==
    IF stmt.cls = "CopyrightStatementField"
    THEN [error |-> None,
          value |-> Strip(stmt.year_range \o " " \o stmt.holder, WHITESPACE)]
    ELSE [error |-> Some("AttributeError"), value |-> ""]

License(name, text) == Some([name |-> name, text |-> text])

Paragraph(cls, files, license, statements, text) ==
    [cls |-> cls, files |-> files, license |-> license,
     statements |-> statements, text |-> text]

Header(license, statements) ==
    Paragraph("CopyrightHeaderParagraph", "", license, statements, "")

Files(files, license, statements) ==
    Paragraph("CopyrightFilesParagraph", files, license, statements, "")

LicenseParagraph(license) ==
    Paragraph("CopyrightLicenseParagraph", "", license, << >>, "")

CatchAll(text) == Paragraph("CatchAllParagraph", "", None, << >>, text)

\* isinstance(paragraph, (CopyrightHeaderParagraph, CopyrightFilesParagraph))
IsHeaderOrFiles(p) ==
    p.cls \in {"CopyrightHeaderParagraph", "CopyrightFilesParagraph"}

JaneDoe == Field("2005", "Jane Doe")

JaneDoeHolder == Field("", "2005 Jane Doe")

Acme == Field("2010-2012", "ACME Inc.")

\* The paragraphs documents are made of.
PARAGRAPHS ==
    { Header(License(Some(": MIT "), None), << JaneDoe >>),
      Files("*", License(Some("GPL"), Some("GPL text")),
            << JaneDoeHolder, Acme >>),
      Files("debian/*", License(Some("GPL"), Some("MIT text")), << Acme >>),
      Files("debian/*", License(Some("According to X"), None), << >>),
      Files("debian/*", License(Some("2005 Jane Doe"), None), << Acme >>),
      Header(License(Some("2005 Jane Doe"), None), << Acme >>),
      LicenseParagraph(License(Some("2005 Jane Doe"), Some("MIT text"))),
      Files("src/*", License(Some("By obtaining this"), Some("MIT text")),
            << JaneDoe >>),
      Files("src/*", None, << Acme, JaneDoe >>),
      Header(License(None, Some("zzz")), << >>),
      LicenseParagraph(License(Some("zzz"), None)),
      LicenseParagraph(License(Some(" \t"), Some(""))),
      CatchAll("MIT text"),
      CatchAll("zzz"),
      CatchAll("") }

\* The documents of at most MaxParagraphs paragraphs.
DOCUMENTS == UNION { [1..n -> PARAGRAPHS] : n \in 0..MaxParagraphs }

\* ------------------------------------------------------------------------
\* is_debian_packaging
\* ------------------------------------------------------------------------
is_debian_packaging(paragraph) ==
    paragraph.cls = "CopyrightFilesParagraph" /\ paragraph.files = "debian/*"

\* ------------------------------------------------------------------------
\* fix_copyright
\* ------------------------------------------------------------------------
NOT_A_LICENSE_NAME ==
    << "according to",
       "by obtaining",
       "distributed under the terms of the gnu",
       "gnu general public license version 2 as published by the free",
       "gnu lesser general public license 2.1 as published by the" >>

\* What evaluating license.text raises in fix_copyright, where no local
\* license is bound: the name resolves to the builtin the site module
\* installs, which has no such attribute, or to nothing at all.
UNBOUND_LICENSE_ERRORS == {"AttributeError", "NameError"}

\* license_name.startswith('200') and what follows it.
FixYearPrefix(paragraph, license_name) ==
    IF StartsWith(license_name, "200") /\ IsHeaderOrFiles(paragraph)
    THEN [paragraph EXCEPT
            !.statements = Append(@, PlainStr(license_name)),
            !.license = Some([@[1] EXCEPT !.name = None])]
    ELSE paragraph

\* license_name_low.startswith(NOT_A_LICENSE_NAME) and what follows it:
\* the error raised, if any.
FixProse(license_name_low, site_error) ==
    IF \E k \in 1..Len(NOT_A_LICENSE_NAME) :
            StartsWith(license_name_low, NOT_A_LICENSE_NAME[k])
    THEN Some(site_error)
    ELSE None

\* One iteration of the loop of fix_copyright: the paragraph as it is left
\* and the error raised, if any.  site_error is what the build raises on
\* the unbound name.
FixParagraph(paragraph, site_error) ==
    IF paragraph.cls = "CatchAllParagraph"
    THEN [error |-> None, paragraph |-> paragraph]
    ELSE IF paragraph.license = None
    THEN [error |-> None, paragraph |-> paragraph]
    ELSE IF ~Truthy(paragraph.license[1].name)
    THEN [error |-> None, paragraph |-> paragraph]
    ELSE [error |-> FixProse(Lower(paragraph.license[1].name[1]), site_error),
          paragraph |-> FixYearPrefix(paragraph, paragraph.license[1].name[1])]

RECURSIVE FixFrom(_, _, _)

\* The loop from paragraph i on, paragraph i already seen to: it stops at
\* the first error.
FixNext(paragraphs, i, fixed, site_error) ==
    IF fixed.error # None
    THEN [error |-> fixed.error,
          paragraphs |-> [paragraphs EXCEPT ![i] = fixed.paragraph]]
    ELSE FixFrom([paragraphs EXCEPT ![i] = fixed.paragraph], i + 1, site_error)

\* The loop of fix_copyright from paragraph i on.
FixFrom(paragraphs, i, site_error) ==
    IF i > Len(paragraphs) THEN [error |-> None, paragraphs |-> paragraphs]
    ELSE FixNext(paragraphs, i, FixParagraph(paragraphs[i], site_error),
                 site_error)

fix_copyright(paragraphs, site_error) == FixFrom(paragraphs, 1, site_error)

\* ------------------------------------------------------------------------
\* get_declared_to_detected, called by one thread and run to its end
\* ------------------------------------------------------------------------
\* table is the module global (None before the first call); the result is
\* the global after the call, which is also what the call returns.
get_declared_to_detected(table) ==
    IF table # None /\ DOMAIN table[1] # {}
    THEN table
    ELSE Some(LoadLines(<< >>, DATA_FILE, 1))

\* ------------------------------------------------------------------------
\* detect_using_name_mapping and detect_declared_license
\* ------------------------------------------------------------------------
\* if detected: return str(licensing.parse(detected, simple=True))
ExpressionOf(detected) ==
    IF Truthy(detected) THEN Some(Str(Parse(detected[1]))) ELSE None

\* The lookup without the lowercasing of the declared name.
LookupAsDeclared(table, declared) ==
    ExpressionOf(DictGet(get_declared_to_detected(table)[1], declared))

detect_using_name_mapping(table, declared) ==
    ExpressionOf(DictGet(get_declared_to_detected(table)[1], Lower(declared)))

\* declared = declared and declared.strip(': \t')
StripDeclared(name) ==
    IF Truthy(name) THEN Some(Strip(name[1], ": \t")) ELSE name

\* The detections in sequence, for a non-empty declared and the result of
\* detect_using_name_mapping on it.
DetectInSequence(det, declared, detected) ==
    IF Truthy(detected)
    THEN [declared |-> declared, detected |-> detected, fallback |-> FALSE]
    ELSE [declared |-> declared,
          detected |-> compute_normalized_license(det, declared[1]),
          fallback |-> TRUE]

DetectStripped(det, table, declared) ==
    IF ~Truthy(declared)
    THEN [declared |-> None, detected |-> None, fallback |-> FALSE]
    ELSE DetectInSequence(det, declared,
                          detect_using_name_mapping(table, declared[1]))

\* The pair the function returns, and whether it went on to the fallback
\* detector.
detect_declared_license(det, table, name) ==
    DetectStripped(det, table, StripDeclared(name))

\* The module global after detect_declared_license(name).
TableAfter(table, name) ==
    IF Truthy(StripDeclared(name)) THEN get_declared_to_detected(table)
    ELSE table

\* ------------------------------------------------------------------------
\* parse_copyright_file
\* ------------------------------------------------------------------------
\* if x not in list: list.append(x)
AppendNew(list, x) == IF In(x, list) THEN list ELSE Append(list, x)

\* if x and x not in list: list.append(x)
AppendTruthy(list, x) == IF Truthy(x) THEN AppendNew(list, x[1]) ELSE list

RECURSIVE CollectAll(_, _)

\* The loop over the statements without its test for repeats.
CollectAllNext(copyrights, statements, p) ==
    IF p.error # None THEN [error |-> p.error, copyrights |-> copyrights]
    ELSE CollectAll(Append(copyrights, p.value), Tail(statements))

CollectAll(copyrights, statements) ==
    IF statements = << >> THEN [error |-> None, copyrights |-> copyrights]
    ELSE CollectAllNext(copyrights, statements, Dumps(Head(statements)))

RECURSIVE CollectCopyrights(_, _)

\* The body of the loop over the statements, p being the first one dumped.
CollectNext(copyrights, statements, p) ==
    IF p.error # None THEN [error |-> p.error, copyrights |-> copyrights]
    ELSE CollectCopyrights(AppendNew(copyrights, p.value), Tail(statements))

\* The loop over the statements of a paragraph: the copyrights after it
\* and the error raised, if any.
CollectCopyrights(copyrights, statements) ==
    IF statements = << >> THEN [error |-> None, copyrights |-> copyrights]
    ELSE CollectNext(copyrights, statements, Dumps(Head(statements)))

\* if not detected: detected = 'unknown'
OrUnknown(detected) == IF Truthy(detected) THEN detected[1] ELSE "unknown"

\* The branch of the loop body for a CatchAllParagraph.
ScanCatchAll(acc, paragraph, det) ==
    IF paragraph.text # ""
    THEN [acc EXCEPT
            !.detected_licenses =
                Append(@, OrUnknown(get_normalized_expression(det, paragraph.text)))]
    ELSE acc

\* also detect in text
ScanText(detected_licenses, text, det) ==
    IF Truthy(text)
    THEN AppendNew(detected_licenses,
                   OrUnknown(get_normalized_expression(det, text[1])))
    ELSE detected_licenses

\* The lists after a paragraph with license plicense, r being what
\* detect_declared_license returned for its name.
ScanDeclared(acc, plicense, r, det) ==
    [acc EXCEPT
        !.declared_licenses = AppendTruthy(@, r.declared),
        !.detected_licenses =
            ScanText(AppendTruthy(@, r.detected), plicense.text, det),
        !.table = TableAfter(@, plicense.name),
        !.call = Some([name |-> plicense.name, declared |-> r.declared,
                       detected |-> r.detected, fallback |-> r.fallback])]

\* The branch of the loop body for a paragraph with a license field.
ScanLicense(acc, paragraph, det) ==
    IF paragraph.license = None THEN acc
    ELSE ScanDeclared(acc, paragraph.license[1],
                      detect_declared_license(det, acc.table,
                                              paragraph.license[1].name),
                      det)

\* The loop body after the copyright statements were collected.
ScanDetected(acc, collected, paragraph, det) ==
    IF collected.error # None
    THEN [acc EXCEPT !.copyrights = collected.copyrights,
                     !.error = collected.error]
    ELSE IF paragraph.cls = "CatchAllParagraph"
    THEN ScanCatchAll([acc EXCEPT !.copyrights = collected.copyrights],
                      paragraph, det)
    ELSE ScanLicense([acc EXCEPT !.copyrights = collected.copyrights],
                     paragraph, det)

\* One iteration of the loop over the paragraphs.  acc holds the three
\* lists, the error raised (if any), the module global of the alias table
\* and the last call of detect_declared_license.
ScanParagraph(acc, paragraph, skip, det) ==
    IF skip /\ is_debian_packaging(paragraph) THEN acc
    ELSE ScanDetected(acc,
                      IF IsHeaderOrFiles(paragraph)
                      THEN CollectCopyrights(acc.copyrights,
                                             paragraph.statements)
                      ELSE [error |-> None, copyrights |-> acc.copyrights],
                      paragraph, det)

\* Only the first expression, the others dropped.
CombineFirst(expressions) == expressions[1]

\* licensing.AND(*detected_licenses), or the only expression
Combine(expressions) ==
    IF Len(expressions) > 1 THEN And(expressions) ELSE expressions[1]

ParseAll(detected_licenses) ==
    [k \in 1..Len(detected_licenses) |-> Parse(detected_licenses[k])]

\* The detected license of the lists' reduction.
ReduceDetected(detected_licenses, simplify) ==
    IF detected_licenses # << >>
    THEN IF simplify
         THEN Str(Simplify(Combine(ParseAll(detected_licenses))))
         ELSE Str(Combine(ParseAll(detected_licenses)))
    ELSE "unknown"

\* The tuple parse_copyright_file returns.
Reduce(acc, simplify) ==
    [declared_license |-> Join("\n", acc.declared_licenses),
     detected_license |-> ReduceDetected(acc.detected_licenses, simplify),
     copyrights |-> Join("\n", acc.copyrights)]

EmptyAcc(table) ==
    [declared_licenses |-> << >>, detected_licenses |-> << >>,
     copyrights |-> << >>, error |-> None, table |-> table, call |-> None]

RECURSIVE ScanFrom(_, _, _, _, _)
\* The loop over the paragraphs from paragraph i on, to its end or to the
\* first error.
ScanFrom(acc, paragraphs, i, skip, det) ==
    IF i > Len(paragraphs) \/ acc.error # None THEN acc
    ELSE ScanFrom(ScanParagraph(acc, paragraphs[i], skip, det),
                  paragraphs, i + 1, skip, det)

\* What a call ends with, deco being the document fix_copyright left and
\* acc what the loop left: the error raised, or the tuple returned.
Outcome(deco_error, acc, simplify) ==
    IF deco_error # None THEN [error |-> deco_error, result |-> None]
    ELSE IF acc.error # None THEN [error |-> acc.error, result |-> None]
    ELSE [error |-> None, result |-> Some(Reduce(acc, simplify))]

ParseFixed(fixed, skip, simplify, det, table) ==
    Outcome(fixed.error,
            IF fixed.error # None THEN EmptyAcc(table)
            ELSE ScanFrom(EmptyAcc(table), fixed.paragraphs, 1, skip, det),
            simplify)

\* The outcome of a whole call of parse_copyright_file.
parse_copyright_file(paragraphs, skip, simplify, det, table, site_error) ==
    ParseFixed(fix_copyright(paragraphs, site_error), skip, simplify, det, table)

\* ------------------------------------------------------------------------
\* State
\* ------------------------------------------------------------------------
VARIABLES
    \* one call of parse_copyright_file
    original,               \* the document as DebianCopyright.from_file made it
    deco,                   \* its paragraphs, as fix_copyright leaves them
    skip_debian_packaging,  \* the arguments of the call
    simplify_licenses,
    detector,               \* the free-text detector of this run
    pc,                     \* "fix", "loop", "returned", "raised"
    index,                  \* the paragraph the loop is at
    acc,                    \* the lists of the loop, see ScanParagraph
    outcome,                \* the error raised or the tuple returned
    \* the alias table
    DECLARED_TO_DETECTED,   \* the module global: 0 (None) or a dict of heap
    heap,                   \* the dicts created so far
    unreadable_at,          \* the fault of the data file, see FAULTS
    tpc,                    \* per thread, its place in get_declared_to_detected
    cursor,                 \* per thread, the line its loop reads next
    returned,               \* per thread, the dict its call returned
    history,                \* per thread, how each of its calls ended
    loads                   \* how many times the data file was opened

parse_vars ==
    << original, deco, skip_debian_packaging, simplify_licenses, detector,
       pc, index, acc, outcome >>

table_vars ==
    << unreadable_at, tpc, cursor, returned, history, loads >>

vars == << parse_vars, DECLARED_TO_DETECTED, heap, table_vars >>

Threads == 1..NThreads

\* The module global as a value: None, or the dict it is bound to.
GlobalTable ==
    IF DECLARED_TO_DETECTED = 0 THEN None
    ELSE Some(heap[DECLARED_TO_DETECTED])

\* ------------------------------------------------------------------------
\* parse_copyright_file, step by step, in a process of one thread
\* ------------------------------------------------------------------------
TableIdle ==
    /\ unreadable_at = None
    /\ tpc = [t \in Threads |-> "idle"]
    /\ cursor = [t \in Threads |-> 0]
    /\ returned = [t \in Threads |-> 0]
    /\ history = [t \in Threads |-> << >>]
    /\ loads = 0

Init ==
    /\ original \in DOCUMENTS
    /\ deco = original
    /\ skip_debian_packaging \in BOOLEAN
    /\ simplify_licenses \in BOOLEAN
    /\ detector \in DETECTORS
    /\ pc = "fix"
    /\ index = 1
    /\ acc = EmptyAcc(None)
    /\ outcome = [error |-> None, result |-> None]
    /\ DECLARED_TO_DETECTED = 0
    /\ heap = << >>
    /\ TableIdle

\* The state after fix_copyright left fixed.
Fixed(fixed) ==
    /\ deco' = fixed.paragraphs
    /\ outcome' = [outcome EXCEPT !.error = fixed.error]
    /\ pc' = IF fixed.error # None THEN "raised" ELSE "loop"

\* deco = fix_copyright(deco)
FixCopyright ==
    /\ pc = "fix"
    /\ \E site_error \in UNBOUND_LICENSE_ERRORS :
          Fixed(fix_copyright(deco, site_error))
    /\ UNCHANGED << original, skip_debian_packaging, simplify_licenses,
                    detector, index, acc, DECLARED_TO_DETECTED, heap,
                    table_vars >>

\* The state after an iteration of the loop left next.
Scanned(next) ==
    /\ acc' = next
    /\ IF next.table # GlobalTable
       THEN /\ heap' = Append(heap, next.table[1])
            /\ DECLARED_TO_DETECTED' = Len(heap) + 1
       ELSE UNCHANGED << heap, DECLARED_TO_DETECTED >>
    /\ outcome' = [outcome EXCEPT !.error = next.error]
    /\ pc' = IF next.error # None THEN "raised" ELSE "loop"

\* One iteration of: for paragraph in deco.paragraphs
LoopIteration ==
    /\ pc = "loop"
    /\ index <= Len(deco)
    /\ Scanned(ScanParagraph([acc EXCEPT !.table = GlobalTable], deco[index],
                             skip_debian_packaging, detector))
    /\ index' = index + 1
    /\ UNCHANGED << original, deco, skip_debian_packaging, simplify_licenses,
                    detector, table_vars >>

\* The reduction of the lists and the return, after the last paragraph.
Return ==
    /\ pc = "loop"
    /\ index > Len(deco)
    /\ outcome' = [outcome EXCEPT
                     !.result = Some(Reduce(acc, simplify_licenses))]
    /\ pc' = "returned"
    /\ UNCHANGED << original, deco, skip_debian_packaging, simplify_licenses,
                    detector, index, acc, DECLARED_TO_DETECTED, heap,
                    table_vars >>

Next == FixCopyright \/ LoopIteration \/ Return

Spec == Init /\ [][Next]_vars

\* ------------------------------------------------------------------------
\* get_declared_to_detected, statement by statement, called by the threads
\* of one process
\* ------------------------------------------------------------------------
\* The faults of the data file: none, missing (io.open raises), or
\* unreadable from line k on (the iteration raises when it comes to line k,
\* the lines before it read).
FAULTS == {None, Some(0)} \cup {Some(k) : k \in 1..Len(DATA_FILE)}

LoadInit ==
    /\ original = << >>
    /\ deco = << >>
    /\ skip_debian_packaging = TRUE
    /\ simplify_licenses = TRUE
    /\ detector = "nothing"
    /\ pc = "none"
    /\ index = 1
    /\ acc = EmptyAcc(None)
    /\ outcome = [error |-> None, result |-> None]
    /\ DECLARED_TO_DETECTED = 0
    /\ heap = << >>
    /\ unreadable_at \in FAULTS
    /\ tpc = [t \in Threads |-> "idle"]
    /\ cursor = [t \in Threads |-> 0]
    /\ returned = [t \in Threads |-> 0]
    /\ history = [t \in Threads |-> << >>]
    /\ loads = 0

\* How a call ended: with an error, or with the dict its caller looked a
\* name up in, as the dict was at the lookup.
Raised == [raised |-> TRUE, table |-> << >>]

Looked(table) == [raised |-> FALSE, table |-> table]

\* A thread calls get_declared_to_detected.
Call(t) ==
    /\ tpc[t] = "idle"
    /\ Len(history[t]) < MaxCalls
    /\ tpc' = [tpc EXCEPT ![t] = "check"]
    /\ UNCHANGED << parse_vars, DECLARED_TO_DETECTED, heap, unreadable_at,
                    cursor, returned, history, loads >>

\* if _DECLARED_TO_DETECTED:
Check(t) ==
    /\ tpc[t] = "check"
    /\ tpc' = [tpc EXCEPT ![t] =
                  IF DECLARED_TO_DETECTED # 0
                     /\ DOMAIN heap[DECLARED_TO_DETECTED] # {}
                  THEN "return" ELSE "assign"]
    /\ UNCHANGED << parse_vars, DECLARED_TO_DETECTED, heap, unreadable_at,
                    cursor, returned, history, loads >>

\* _DECLARED_TO_DETECTED = {}
Assign(t) ==
    /\ tpc[t] = "assign"
    /\ heap' = Append(heap, << >>)
    /\ DECLARED_TO_DETECTED' = Len(heap) + 1
    /\ tpc' = [tpc EXCEPT ![t] = "open"]
    /\ UNCHANGED << parse_vars, unreadable_at, cursor, returned, history,
                    loads >>

\* with io.open(data_file, encoding='utf-8') as df:
Open(t) ==
    /\ tpc[t] = "open"
    /\ IF unreadable_at = Some(0)
       THEN /\ history' = [history EXCEPT ![t] = Append(@, Raised)]
            /\ tpc' = [tpc EXCEPT ![t] = "idle"]
            /\ UNCHANGED << cursor, loads >>
       ELSE /\ cursor' = [cursor EXCEPT ![t] = 1]
            /\ loads' = loads + 1
            /\ tpc' = [tpc EXCEPT ![t] = "read"]
            /\ UNCHANGED history
    /\ UNCHANGED << parse_vars, DECLARED_TO_DETECTED, heap, unreadable_at,
                    returned >>

\* One iteration of: for line in df, the line put into the dict the
\* global is bound to at that moment.
ReadLine(t) ==
    /\ tpc[t] = "read"
    /\ cursor[t] <= Len(DATA_FILE)
    /\ unreadable_at # Some(cursor[t])
    /\ heap' = [heap EXCEPT ![DECLARED_TO_DETECTED] =
                   LoadLine(@, DATA_FILE[cursor[t]])]
    /\ cursor' = [cursor EXCEPT ![t] = @ + 1]
    /\ UNCHANGED << parse_vars, DECLARED_TO_DETECTED, unreadable_at, tpc,
                    returned, history, loads >>

\* The iteration raises: the error leaves the function.
ReadFails(t) ==
    /\ tpc[t] = "read"
    /\ unreadable_at = Some(cursor[t])
    /\ history' = [history EXCEPT ![t] = Append(@, Raised)]
    /\ tpc' = [tpc EXCEPT ![t] = "idle"]
    /\ UNCHANGED << parse_vars, DECLARED_TO_DETECTED, heap, unreadable_at,
                    cursor, returned, loads >>

\* The end of the file: on to the return.
EndOfFile(t) ==
    /\ tpc[t] = "read"
    /\ cursor[t] > Len(DATA_FILE)
    /\ tpc' = [tpc EXCEPT ![t] = "return"]
    /\ UNCHANGED << parse_vars, DECLARED_TO_DETECTED, heap, unreadable_at,
                    cursor, returned, history, loads >>

\* return _DECLARED_TO_DETECTED
ReturnTable(t) ==
    /\ tpc[t] = "return"
    /\ returned' = [returned EXCEPT ![t] = DECLARED_TO_DETECTED]
    /\ tpc' = [tpc EXCEPT ![t] = "lookup"]
    /\ UNCHANGED << parse_vars, DECLARED_TO_DETECTED, heap, unreadable_at,
                    cursor, history, loads >>

\* The caller's get_declared_to_detected().get(declared_low)
Lookup(t) ==
    /\ tpc[t] = "lookup"
    /\ history' = [history EXCEPT ![t] = Append(@, Looked(heap[returned[t]]))]
    /\ tpc' = [tpc EXCEPT ![t] = "idle"]
    /\ UNCHANGED << parse_vars, DECLARED_TO_DETECTED, heap, unreadable_at,
                    cursor, returned, loads >>

LoadNext ==
    \E t \in Threads :
        \/ Call(t)
        \/ Check(t)
        \/ Assign(t)
        \/ Open(t)
        \/ ReadLine(t)
        \/ ReadFails(t)
        \/ EndOfFile(t)
        \/ ReturnTable(t)
        \/ Lookup(t)

LoadSpec == LoadInit /\ [][LoadNext]_vars

\* ------------------------------------------------------------------------
\* Properties of parse_copyright_file (under Spec)
\* ------------------------------------------------------------------------
Terminated == pc \in {"returned", "raised"}

\* The alias table a finished, undisturbed load leaves.
FullTable == LoadLines(<< >>, DATA_FILE, 1)

NoDuplicates(list) ==
    \A i, j \in 1..Len(list) : i < j => list[i] # list[j]

\* The entries of list, each kept where it first occurs.
FirstOccurrences(list) ==
    LET keep == {k \in 1..Len(list) : \A j \in 1..(k - 1) : list[j] # list[k]}
        RECURSIVE Pick(_)
        Pick(k) == IF k > Len(list) THEN << >>
                   ELSE IF k \in keep THEN << list[k] >> \o Pick(k + 1)
                   ELSE Pick(k + 1)
    IN  Pick(1)

\* The license name of a paragraph as the document parser made it, or "".
NameOf(paragraph) ==
    IF paragraph.license # None /\ Truthy(paragraph.license[1].name)
    THEN paragraph.license[1].name[1]
    ELSE ""

HasYearName(paragraph) == StartsWith(NameOf(paragraph), "200")

HasProseName(paragraph) ==
    \E k \in 1..Len(NOT_A_LICENSE_NAME) :
        StartsWith(Lower(NameOf(paragraph)), NOT_A_LICENSE_NAME[k])

NoProseName == \A k \in 1..Len(original) : ~HasProseName(original[k])

\* The paragraph is one the loop of parse_copyright_file does not skip.
InScope(paragraph) == ~(skip_debian_packaging /\ is_debian_packaging(paragraph))

WithoutPackaging(paragraphs) ==
    SelectSeq(paragraphs, LAMBDA p : ~is_debian_packaging(p))

SameOutcome(a, b) ==
    /\ (a.error = None) <=> (b.error = None)
    /\ a.result = b.result

\* C1: with packaging exclusion enabled, the outcome of a call (the tuple
\* returned, or an error) is the outcome for the document with its
\* packaging-only paragraphs (Files paragraphs of pattern debian/*) removed.
C1_PackagingHasNoInfluence ==
    (Terminated /\ skip_debian_packaging) =>
        SameOutcome(outcome,
                    parse_copyright_file(WithoutPackaging(original), TRUE,
                                         simplify_licenses, detector, None,
                                         "AttributeError"))

\* C2: a license name that begins with "200", in a Header or Files paragraph
\* the loop does not skip, of a document without misplaced prose: the call
\* returns, the name is no entry of the declared licenses and is an entry
\* of the copyrights.
C2_YearPrefixRepair ==
    (Terminated /\ NoProseName) =>
        \A k \in 1..Len(original) :
            (/\ HasYearName(original[k])
             /\ IsHeaderOrFiles(original[k])
             /\ InScope(original[k]))
            => /\ pc = "returned"
               /\ ~In(NameOf(original[k]), acc.declared_licenses)
               /\ In(NameOf(original[k]), acc.copyrights)

\* fix_copyright has run, and has raised.
FixRaised == pc = "raised" /\ index = 1

\* The license text the prose rule is to leave: the name, a newline and
\* the previous text, or only the name.
ProseText(license) ==
    IF Truthy(license.text) THEN license.name[1] \o "\n" \o license.text[1]
    ELSE license.name[1]

\* C3: fix_copyright completes without error; it leaves every paragraph
\* whose lowercased license name starts with one of the five prefixes with
\* its name cleared and the name put before its text, and every other
\* paragraph (the year-prefix ones aside) as it was.
C3_ProseRepair ==
    pc # "fix" =>
        /\ ~FixRaised
        /\ \A k \in 1..Len(original) :
              IF HasProseName(original[k])
              THEN /\ deco[k].license[1].name = None
                   /\ deco[k].license[1].text
                        = Some(ProseText(original[k].license[1]))
              ELSE HasYearName(original[k]) \/ deco[k] = original[k]

\* C6: a call of detect_declared_license whose name, trimmed of ':', space
\* and tab and lowercased, is a key of the alias table returns the trimmed
\* name and the normalized form of the table's value, and does not go on to
\* the fallback detector; the fallback is consulted only on an alias miss.
C6_AliasPrecedence ==
    (acc.call # None /\ Truthy(acc.call[1].name)) =>
        LET call == acc.call[1]
            trimmed == Strip(call.name[1], ": \t")
            key == Lower(trimmed)
        IN  /\ (trimmed # "" /\ key \in DOMAIN FullTable) =>
                  /\ call.declared = Some(trimmed)
                  /\ call.detected = Some(Str(Parse(FullTable[key])))
                  /\ ~call.fallback
            /\ call.fallback => key \notin DOMAIN FullTable

\* C6's case: the name ": MIT " resolved through the alias table to "mit",
\* where the detector of the run says "mit-old-style" for it.
C6_Witness ==
    /\ acc.call # None
    /\ acc.call[1].name = Some(": MIT ")
    /\ acc.call[1].detected = Some("mit")
    /\ compute_normalized_license(detector, "MIT") = Some("mit-old-style")

RECURSIVE DumpedOf(_)
\* The statements of the list that are copyright statements, dumped.
DumpedOf(statements) ==
    IF statements = << >> THEN << >>
    ELSE IF Head(statements).cls = "CopyrightStatementField"
    THEN << Dumps(Head(statements)).value >> \o DumpedOf(Tail(statements))
    ELSE DumpedOf(Tail(statements))

RECURSIVE DumpedUpTo(_)
\* The dumped copyright statements of the Header and Files paragraphs the
\* loop has gone through and did not skip, in document order.
DumpedUpTo(k) ==
    IF k = 0 THEN << >>
    ELSE IF IsHeaderOrFiles(deco[k]) /\ InScope(deco[k])
    THEN DumpedUpTo(k - 1) \o DumpedOf(deco[k].statements)
    ELSE DumpedUpTo(k - 1)

\* C7: after any prefix of the paragraphs the copyright list has no
\* duplicates and holds the statements of the Header and Files paragraphs in
\* scope in order of first occurrence; the string returned joins them.
C7_CopyrightsDeduplicated ==
    /\ NoDuplicates(acc.copyrights)
    /\ pc # "fix" =>
          acc.copyrights = FirstOccurrences(DumpedUpTo(index - 1))
    /\ pc = "returned" =>
          outcome.result[1].copyrights = Join("\n", acc.copyrights)

\* C7's case: two paragraphs gone through both state "2005 Jane Doe", and
\* the copyrights returned are that statement, once.
C7_Witness ==
    /\ pc = "returned"
    /\ Len(deco) = 2
    /\ \A k \in 1..2 : In("2005 Jane Doe", DumpedOf(deco[k].statements))
    /\ \A k \in 1..2 : IsHeaderOrFiles(deco[k]) /\ InScope(deco[k])
    /\ outcome.result[1].copyrights = "2005 Jane Doe\n2010-2012 ACME Inc."

\* C8: the list of detected expressions has no duplicates after any
\* paragraph, whichever of the three ways added its entries.
C8_DetectedNoDuplicates == NoDuplicates(acc.detected_licenses)

\* The paragraph, as parsed, yields no detected expression: it is skipped,
\* or has no text to detect in, or neither its license name nor its
\* license text resolves to anything.
NothingDetected(paragraph) ==
    \/ ~InScope(paragraph)
    \/ /\ paragraph.cls = "CatchAllParagraph"
       /\ ~Truthy(get_normalized_expression(detector, paragraph.text))
    \/ /\ paragraph.cls # "CatchAllParagraph"
       /\ \/ paragraph.license = None
          \/ /\ ~Truthy(detect_declared_license(
                            detector, None, paragraph.license[1].name).detected)
             /\ \/ ~Truthy(paragraph.license[1].text)
                \/ ~Truthy(get_normalized_expression(
                               detector, paragraph.license[1].text[1]))

\* C9: a call on a document (without misplaced prose) none of whose
\* paragraphs yields a detected expression returns, with the detected
\* license "unknown".
C9_UnknownFallback ==
    (/\ Terminated
     /\ NoProseName
     /\ \A k \in 1..Len(original) : NothingDetected(original[k]))
    => /\ pc = "returned"
       /\ outcome.result[1].detected_license = "unknown"

KeySet(expression) == {Keys(expression)[k] : k \in 1..Len(Keys(expression))}

\* C10: the detected license returned for a non-empty detected list is the
\* rendering of its only entry, or of the conjunction of all its entries:
\* the keys of every entry are in it and no others, joined by AND in list
\* order when simplification is disabled, and each once when it is enabled.
C10_Reduction ==
    (pc = "returned" /\ acc.detected_licenses # << >>) =>
        LET list == acc.detected_licenses
            rendered == [k \in 1..Len(list) |-> Str(Parse(list[k]))]
            result == outcome.result[1].detected_license
        IN  /\ KeySet(Parse(result))
                 = UNION {KeySet(Parse(list[k])) : k \in 1..Len(list)}
            /\ Len(list) = 1 => result = rendered[1]
            /\ ~simplify_licenses => result = Join(" AND ", rendered)
            /\ simplify_licenses => NoDuplicates(Keys(Parse(result)))

\* C10's case: two paragraphs detected "mit" and "gpl-2.0", and the call
\* returned "mit AND gpl-2.0".
C10_Witness ==
    /\ pc = "returned"
    /\ ~simplify_licenses
    /\ acc.detected_licenses = << "mit", "gpl-2.0" >>
    /\ outcome.result[1].detected_license = "mit AND gpl-2.0"

\* ------------------------------------------------------------------------
\* Properties of get_declared_to_detected (under LoadSpec)
\* ------------------------------------------------------------------------
\* Every call that ended so far and returned looked up in the full table.
AllLookedAtFullTable ==
    \A t \in Threads : \A k \in 1..Len(history[t]) :
        ~history[t][k].raised => history[t][k].table = FullTable

\* C4: with a readable data file and any interleaving of the threads'
\* calls, the file is loaded at most once and every call returns, and
\* looks a name up in, the fully populated table.
C4_OneTimeInitialization ==
    unreadable_at = None => (loads <= 1 /\ AllLookedAtFullTable)

\* Only thread 1 has called so far.
OnlyThread1 ==
    \A t \in Threads \ {1} : tpc[t] = "idle" /\ history[t] = << >>

\* C5: with a data file that is missing or unreadable from some line on,
\* and one thread calling again and again, every call raises: none returns
\* an empty or partly loaded table.
C5_NoSilentPartialTable ==
    (unreadable_at # None /\ OnlyThread1) =>
        \A k \in 1..Len(history[1]) : history[1][k].raised

=============================================================================
